---- MODULE Spec2Model ----
(***************************************************************************)
(* Classroom roster manager (Django app "students"): the three tables      *)
(* Section / Student / Enrollment, the write paths that reach them, and    *)
(* the read-only aggregation, export and weather handlers of views.py,     *)
(* the server process that runs them and two add_student POSTs in flight.  *)
(*                                                                         *)
(* Strings are sequences of character codes so that ORDER BY, strip() and  *)
(* icontains are computed and not assumed.                                 *)
(***************************************************************************)
EXTENDS Integers, Sequences, FiniteSets, TLC

VARIABLES sections, students, enrollments, seq, response, csv_export,
          json_export, server, posts

vars ==
    <<sections, students, enrollments, seq, response, csv_export, json_export,
      server, posts>>

tables == <<sections, students, enrollments>>

----------------------------------------------------------------------------
\* Bounds of the model: how many rows each AutoField sequence may hand out.
MaxSections == 2
MaxStudents == 2
MaxEnrollments == 2

\* How many workers the server process may be started with, and how many
\* requests the browsers send it.
MaxWorkers == 2
MaxRequests == 3

----------------------------------------------------------------------------
\* Strings

EmptyStr == << >>

\* "CS101-A", "CS101-B"
CS101A == <<67, 83, 49, 48, 49, 45, 65>>
CS101B == <<67, 83, 49, 48, 49, 45, 66>>

Codes == {CS101A, CS101B}

\* "F25" and the blank term
TermFall == <<70, 50, 53>>

Terms == {EmptyStr, TermFall}

\* "Intro"
SectionName == <<73, 110, 116, 114, 111>>

\* "Al" and "A,l"
NameAl == <<65, 108>>
NameAComma == <<65, 44, 108>>

\* "Lee"
NameLee == <<76, 101, 101>>

Nicknames == {EmptyStr}

\* "a@x", "b@x"
EmailA == <<97, 64, 120>>
EmailB == <<98, 64, 120>>

Emails == {EmailA, EmailB}

None == "None"

RECURSIVE StrLess(_, _)
\* Lexicographic comparison by code point (the BINARY collation).
StrLess(a, b) ==
    IF Len(b) = 0 THEN FALSE
    ELSE IF Len(a) = 0 THEN TRUE
    ELSE IF Head(a) # Head(b) THEN Head(a) < Head(b)
    ELSE StrLess(Tail(a), Tail(b))

StrLeq(a, b) == a = b \/ StrLess(a, b)

----------------------------------------------------------------------------
\* Schema (students/migrations/0001_initial.py) and model metadata
\* (students/models.py)

\* The on_delete of each ForeignKey, as the ORM's deletion collector reads it.
StudentSectionOnDeleteCascade == "CASCADE"
StudentSectionOnDelete == "PROTECT"

EnrollmentStudentOnDeleteProtect == "PROTECT"
EnrollmentStudentOnDelete == "CASCADE"

EnrollmentSectionOnDeleteCascade == "CASCADE"
EnrollmentSectionOnDelete == "PROTECT"

\* Row types
Section(id, code, name, term) ==
    [section_id |-> id, code |-> code, name |-> name, term |-> term]

Student(id, first, last, nick, email, sec) ==
    [student_id |-> id, first_name |-> first, last_name |-> last,
     nickname |-> nick, email |-> email, section |-> sec]

Enrollment(id, stu, sec, active) ==
    [enroll_id |-> id, student |-> stu, section |-> sec, is_active |-> active]

\* Column constraints the migration creates on the section table:
\* primary key, and UNIQUE on code.
SectionSchemaOk(row, rows) ==
    /\ \A r \in rows : r.section_id # row.section_id
    /\ \A r \in rows : r.code # row.code

\* The student table with foreign keys not enforced.
StudentSchemaOkNoForeignKey(row, rows, secs) ==
    /\ \A r \in rows : r.student_id # row.student_id
    /\ \A r \in rows : r.email # row.email

\* Constraints the migration creates on the student table: primary key,
\* UNIQUE on email, and the foreign key to section.  The CreateModel
\* operation carries no options, so the table has no multi-column UNIQUE.
StudentSchemaOk(row, rows, secs) ==
    /\ \A r \in rows : r.student_id # row.student_id
    /\ \A r \in rows : r.email # row.email
    /\ \E s \in secs : s.section_id = row.section

\* Constraints the migration creates on the enrollment table: primary key
\* and the two foreign keys.
EnrollmentSchemaOk(row, rows, studs, secs) ==
    /\ \A r \in rows : r.enroll_id # row.enroll_id
    /\ \E t \in studs : t.student_id = row.student
    /\ \E s \in secs : s.section_id = row.section

\* Student.Meta.constraints: uniq_student_name_in_section, as
\* Model.validate_constraints checks it (the row itself excluded).
UniqStudentNameInSection(row, rows) ==
    \A r \in rows :
        r.student_id # row.student_id =>
            ~ (/\ r.first_name = row.first_name
               /\ r.last_name = row.last_name
               /\ r.section = row.section)

\* Enrollment.Meta.constraints: uniq_enrollment_per_student_per_section.
UniqEnrollmentPerStudentPerSection(row, rows) ==
    \A r \in rows :
        r.enroll_id # row.enroll_id =>
            ~ (r.student = row.student /\ r.section = row.section)

----------------------------------------------------------------------------
\* Responses

Resp(op, arg, status, body) ==
    [op |-> op, arg |-> arg, status |-> status, body |-> body]

NoResponse == Resp("none", 0, None, None)

\* No file downloaded yet.
NoExport == [ready |-> FALSE]

\* A worker of the server process with no request to handle.
Idle == [id |-> 0, path |-> "", from |-> 0, pc |-> "idle", payload |-> << >>]

\* The server process just started with `capacity` workers: nothing accepted
\* on its socket, nothing being handled, nothing answered.
IdleServer(capacity) ==
    [capacity |-> capacity,
     inbox |-> << >>,
     serving |-> [w \in 1 .. capacity |-> Idle],
     next_id |-> 1,
     answered |-> {}]

\* The two browsers that post the student form at the same time.
PostClients == {1, 2}

\* A POST not sent yet.
NoPost ==
    [pc |-> "start",
     cleaned |-> Student(0, EmptyStr, EmptyStr, EmptyStr, EmptyStr, 0),
     status |-> None,
     errors |-> {}]

Init ==
    /\ server = IdleServer(1)
    /\ posts = [c \in PostClients |-> NoPost]
    /\ sections = {}
    /\ students = {}
    /\ enrollments = {}
    /\ seq = [section |-> 0, student |-> 0, enrollment |-> 0]
    /\ response = NoResponse
    /\ csv_export = NoExport
    /\ json_export = NoExport

\* Every write invalidates the files downloaded before it.
Written(resp) ==
    /\ response' = resp
    /\ csv_export' = NoExport
    /\ json_export' = NoExport
    /\ UNCHANGED <<server, posts>>

\* A response that wrote nothing.
Rendered(resp) ==
    /\ response' = resp
    /\ UNCHANGED <<sections, students, enrollments, seq, csv_export, json_export,
                   server, posts>>

----------------------------------------------------------------------------
\* Writes on Section

\* INSERT INTO section: the AutoField takes the next value of the sequence.
SectionInsert(code, term) ==
    LET row == Section(seq.section + 1, code, SectionName, term) IN
    /\ IF SectionSchemaOk(row, sections)
       THEN /\ sections' = sections \cup {row}
            /\ seq' = [seq EXCEPT !.section = @ + 1]
            /\ Written(Resp("section.insert", row.section_id, "ok", None))
       ELSE /\ UNCHANGED <<sections, seq>>
            /\ Written(Resp("section.insert", 0, "IntegrityError", None))
    /\ UNCHANGED <<students, enrollments>>

\* Collector.collect for a Section: the rows that reference it through a
\* PROTECT foreign key stop the deletion, those that reference it through a
\* CASCADE foreign key are deleted with it.
SectionProtectedBy(id) ==
    (IF StudentSectionOnDelete = "PROTECT"
     THEN {t \in students : t.section = id} ELSE {})
    \cup
    (IF EnrollmentSectionOnDelete = "PROTECT"
     THEN {e \in enrollments : e.section = id} ELSE {})

SectionCascadeStudents(id) ==
    IF StudentSectionOnDelete = "CASCADE"
    THEN {t \in students : t.section = id} ELSE {}

SectionCascadeEnrollments(id) ==
    (IF EnrollmentSectionOnDelete = "CASCADE"
     THEN {e \in enrollments : e.section = id} ELSE {})
    \cup
    (IF EnrollmentStudentOnDelete = "CASCADE"
     THEN {e \in enrollments :
             \E t \in SectionCascadeStudents(id) : e.student = t.student_id}
     ELSE {})

\* Section.delete()
SectionDelete(id) ==
    /\ \E s \in sections : s.section_id = id
    /\ IF SectionProtectedBy(id) # {}
       THEN /\ UNCHANGED <<sections, students, enrollments>>
            /\ Written(Resp("section.delete", id, "ProtectedError", None))
       ELSE /\ sections' = {s \in sections : s.section_id # id}
            /\ students' = students \ SectionCascadeStudents(id)
            /\ enrollments' = enrollments \ SectionCascadeEnrollments(id)
            /\ Written(Resp("section.delete", id, "deleted", None))
    /\ UNCHANGED seq

----------------------------------------------------------------------------
\* Writes on Student

RECURSIVE LStrip(_)
LStrip(s) ==
    IF Len(s) > 0 /\ Head(s) = 32 THEN LStrip(Tail(s)) ELSE s

RECURSIVE RStrip(_)
RStrip(s) ==
    IF Len(s) > 0 /\ s[Len(s)] = 32
    THEN RStrip(SubSeq(s, 1, Len(s) - 1)) ELSE s

\* str.strip(), on the space character (code 32)
Strip(s) == RStrip(LStrip(s))

\* EmailValidator: a user part, an "@" (code 64), a domain part, no space.
ValidEmail(e) ==
    /\ \E i \in 2 .. Len(e) - 1 : e[i] = 64
    /\ \A i \in 1 .. Len(e) : e[i] # 32

\* What a browser may post to the student form.
PostFirstNames == {NameAl, EmptyStr, <<32>> \o NameAl}
PostLastNames == {NameLee \o <<32>>}
PostEmails == Emails \cup {<<97>>}
PostSections == 1 .. MaxSections

\* StudentForm.clean_first_name / clean_last_name
clean_first_name(v) == Strip(v)
clean_last_name(v) == Strip(v)

\* StudentForm(request.POST): the cleaned data and the fields in error, as
\* is_valid() leaves them.  Field cleaning (CharField strips and requires a
\* value, EmailField validates, ModelChoiceField looks the section up) comes
\* first, then the instance checks of _post_clean: validate_unique on email
\* and validate_constraints on Student.Meta.constraints, each skipped when
\* one of its fields already failed.
StudentForm(post) ==
    LET first == Strip(post.first_name)
        last == Strip(post.last_name)
        email == Strip(post.email)
        fieldErrors ==
            (IF first = EmptyStr THEN {"first_name"} ELSE {})
            \cup (IF last = EmptyStr THEN {"last_name"} ELSE {})
            \cup (IF email = EmptyStr \/ ~ ValidEmail(email) THEN {"email"} ELSE {})
            \cup (IF \E s \in sections : s.section_id = post.section
                  THEN {} ELSE {"section"})
        row == Student(0, clean_first_name(first), clean_last_name(last),
                       Strip(post.nickname), email, post.section)
        uniqueErrors ==
            IF "email" \notin fieldErrors /\ \E t \in students : t.email = email
            THEN {"email"} ELSE {}
        constraintErrors ==
            IF /\ fieldErrors \cap {"first_name", "last_name", "section"} = {}
               /\ ~ UniqStudentNameInSection(row, students)
            THEN {"__all__"} ELSE {}
    IN [cleaned |-> row,
        errors |-> fieldErrors \cup uniqueErrors \cup constraintErrors]

\* INSERT INTO student
StudentInsert(op, data, okStatus) ==
    LET row == [data EXCEPT !.student_id = seq.student + 1] IN
    IF StudentSchemaOk(row, students, sections)
    THEN /\ students' = students \cup {row}
         /\ seq' = [seq EXCEPT !.student = @ + 1]
         /\ Written(Resp(op, row.student_id, okStatus, {}))
    ELSE /\ UNCHANGED <<students, seq>>
         /\ Written(Resp(op, 0, "IntegrityError", {}))

\* The POST branch saving the form without asking is_valid() first.
StudentFormPostUnchecked(op, post) ==
    /\ StudentInsert(op, StudentForm(post).cleaned, "302")
    /\ UNCHANGED <<sections, enrollments>>

\* The POST branch shared by add_student and StudentCreateView: save and
\* redirect when the form is valid, re-render the form otherwise.
StudentFormPost(op, post) ==
    LET form == StudentForm(post) IN
    /\ IF form.errors = {}
       THEN /\ StudentInsert(op, form.cleaned, "302")
            /\ UNCHANGED <<sections, enrollments>>
       ELSE Rendered(Resp(op, 0, "200", form.errors))

StudentPosts ==
    [first_name : PostFirstNames, last_name : PostLastNames,
     nickname : Nicknames, email : PostEmails, section : PostSections]

\* request.POST of a GET request
EmptyPost ==
    [first_name |-> EmptyStr, last_name |-> EmptyStr, nickname |-> EmptyStr,
     email |-> EmptyStr, section |-> 0]

\* views.add_student
add_student(method, post) ==
    IF method = "POST"
    THEN StudentFormPost("add_student", post)
    ELSE Rendered(Resp("add_student", 0, "200", {}))

\* views.StudentCreateView (CreateView.post: form_valid / form_invalid)
StudentCreateView(method, post) ==
    IF method = "POST"
    THEN StudentFormPost("StudentCreateView", post)
    ELSE Rendered(Resp("StudentCreateView", 0, "200", {}))

\* add_student serving a POST, up to the end of form.is_valid(): the form's
\* queries see the tables as they are at this moment.  An invalid form is
\* rendered again at once; a valid one is still to be saved.
AddStudentIsValid(c, post) ==
    /\ posts[c].pc = "start"
    /\ LET form == StudentForm(post) IN
       posts' = [posts EXCEPT ![c] =
                    IF form.errors = {}
                    THEN [pc |-> "valid", cleaned |-> form.cleaned,
                          status |-> None, errors |-> {}]
                    ELSE [pc |-> "done", cleaned |-> form.cleaned,
                          status |-> "200", errors |-> form.errors]]
    /\ UNCHANGED <<sections, students, enrollments, seq, response, csv_export,
                   json_export, server>>

\* add_student serving a POST, from form.save() on: the INSERT, which the
\* student table accepts or refuses as it is by now, then the redirect.
\* Nothing in add_student catches the IntegrityError of a refused INSERT.
AddStudentSave(c) ==
    /\ posts[c].pc = "valid"
    /\ LET row == [posts[c].cleaned EXCEPT !.student_id = seq.student + 1] IN
       IF StudentSchemaOk(row, students, sections)
       THEN /\ students' = students \cup {row}
            /\ seq' = [seq EXCEPT !.student = @ + 1]
            /\ posts' = [posts EXCEPT ![c].pc = "done", ![c].status = "302"]
       ELSE /\ UNCHANGED <<students, seq>>
            /\ posts' = [posts EXCEPT ![c].pc = "done",
                                      ![c].status = "IntegrityError"]
    /\ csv_export' = NoExport
    /\ json_export' = NoExport
    /\ UNCHANGED <<sections, enrollments, response, server>>

\* Student.objects.create(...): no form, only the schema decides.
StudentCreate(first, last, email, sec) ==
    /\ StudentInsert("student.create",
                     Student(0, first, last, EmptyStr, email, sec), "ok")
    /\ UNCHANGED <<sections, enrollments>>

\* Model.save() of a stored Student moved to another section or renamed:
\* an UPDATE, again checked by the schema alone.
StudentSave(id, first, sec) ==
    /\ \E t \in students : t.student_id = id
    /\ LET old == CHOOSE t \in students : t.student_id = id
           row == [old EXCEPT !.first_name = first, !.section = sec]
       IN IF StudentSchemaOk(row, students \ {old}, sections)
          THEN /\ students' = (students \ {old}) \cup {row}
               /\ Written(Resp("student.save", id, "ok", {}))
          ELSE /\ UNCHANGED students
               /\ Written(Resp("student.save", id, "IntegrityError", {}))
    /\ UNCHANGED <<sections, enrollments, seq>>

\* Collector.collect for a Student
StudentProtectedBy(id) ==
    IF EnrollmentStudentOnDelete = "PROTECT"
    THEN {e \in enrollments : e.student = id} ELSE {}

StudentCascadeEnrollments(id) ==
    IF EnrollmentStudentOnDelete = "CASCADE"
    THEN {e \in enrollments : e.student = id} ELSE {}

\* Student.delete()
StudentDelete(id) ==
    /\ \E t \in students : t.student_id = id
    /\ IF StudentProtectedBy(id) # {}
       THEN /\ UNCHANGED <<students, enrollments>>
            /\ Written(Resp("student.delete", id, "ProtectedError", {}))
       ELSE /\ students' = {t \in students : t.student_id # id}
            /\ enrollments' = enrollments \ StudentCascadeEnrollments(id)
            /\ Written(Resp("student.delete", id, "deleted", {}))
    /\ UNCHANGED <<sections, seq>>

----------------------------------------------------------------------------
\* Writes on Enrollment

\* INSERT INTO enrollment
EnrollmentInsert(op, stu, sec, active) ==
    LET row == Enrollment(seq.enrollment + 1, stu, sec, active) IN
    IF EnrollmentSchemaOk(row, enrollments, students, sections)
    THEN /\ enrollments' = enrollments \cup {row}
         /\ seq' = [seq EXCEPT !.enrollment = @ + 1]
         /\ Written(Resp(op, row.enroll_id, "ok", {}))
    ELSE /\ UNCHANGED <<enrollments, seq>>
         /\ Written(Resp(op, 0, "IntegrityError", {}))

\* Enrollment.objects.create(...)
EnrollmentCreate(stu, sec, active) ==
    /\ EnrollmentInsert("enrollment.create", stu, sec, active)
    /\ UNCHANGED <<sections, students>>

\* The admin's add form (EnrollmentAdmin): a ModelForm, so the choices are
\* looked up and Enrollment.Meta.constraints validated before the INSERT.
EnrollmentAdminAdd(stu, sec, active) ==
    LET row == Enrollment(0, stu, sec, active)
        errors ==
            (IF \E t \in students : t.student_id = stu THEN {} ELSE {"student"})
            \cup (IF \E s \in sections : s.section_id = sec THEN {} ELSE {"section"})
            \cup (IF UniqEnrollmentPerStudentPerSection(row, enrollments)
                  THEN {} ELSE {"__all__"})
    IN IF errors = {}
       THEN /\ EnrollmentInsert("EnrollmentAdmin.add", stu, sec, active)
            /\ UNCHANGED <<sections, students>>
       ELSE Rendered(Resp("EnrollmentAdmin.add", 0, "200", errors))

\* Enrollment.delete(): no foreign key points at an Enrollment.
EnrollmentDelete(id) ==
    /\ \E e \in enrollments : e.enroll_id = id
    /\ enrollments' = {e \in enrollments : e.enroll_id # id}
    /\ Written(Resp("enrollment.delete", id, "deleted", {}))
    /\ UNCHANGED <<sections, students, seq>>

----------------------------------------------------------------------------
\* Query layer: what the ORM expressions of views.py evaluate to.

\* The row a LEFT OUTER JOIN pairs with a Section that has no match.
NullStudent == Student(0, EmptyStr, EmptyStr, EmptyStr, EmptyStr, 0)
NullEnrollment == Enrollment(0, 0, 0, FALSE)

\* Section LEFT OUTER JOIN student ON student.section_id = section.section_id
\* (the reverse relation "section_related_name")
SectionJoinStudents ==
    {[s |-> s, r |-> t, null |-> FALSE] :
        <<s, t>> \in {p \in sections \X students : p[2].section = p[1].section_id}}
    \cup
    {[s |-> s, r |-> NullStudent, null |-> TRUE] :
        s \in {x \in sections : \A t \in students : t.section # x.section_id}}

\* Section LEFT OUTER JOIN enrollment ON enrollment.section_id =
\* section.section_id (the reverse relation "enrollments_related_name")
SectionJoinEnrollments ==
    {[s |-> s, r |-> e, null |-> FALSE] :
        <<s, e>> \in {p \in sections \X enrollments : p[2].section = p[1].section_id}}
    \cup
    {[s |-> s, r |-> NullEnrollment, null |-> TRUE] :
        s \in {x \in sections : \A e \in enrollments : e.section # x.section_id}}

\* COUNT(*): counts the NULL-padded row of an unmatched Section too.
CountStar(group) == Cardinality(group)

\* COUNT(<column of the joined table>): the rows of the group where it is
\* not NULL.
Count(group) == Cardinality({j \in group : ~ j.null})

\* The active Enrollments of the whole table, whatever the group.
CountActiveUngrouped(group) == Cardinality({e \in enrollments : e.is_active})

\* Count("enrollments_related_name",
\*       filter=Q(enrollments_related_name__is_active=True))
CountActive(group) == Cardinality({j \in group : ~ j.null /\ j.r.is_active})

\* .order_by(...): every sequence that lists the rows once each with keys
\* never decreasing; rows with equal keys come in any order.
Orderings(rows, Leq(_, _)) ==
    {q \in [1 .. Cardinality(rows) -> rows] :
        /\ \A i, j \in DOMAIN q : i # j => q[i] # q[j]
        /\ \A i, j \in DOMAIN q : i < j => Leq(q[i], q[j])}

\* No ORDER BY: any order of the rows.
Unordered(a, b) == TRUE

ByCode(a, b) == StrLeq(a.code, b.code)
ByTerm(a, b) == StrLeq(a.term, b.term)

ByLastFirst(a, b) ==
    \/ StrLess(a.last_name, b.last_name)
    \/ a.last_name = b.last_name /\ StrLeq(a.first_name, b.first_name)

\* Section.objects.annotate(n_students=Count("section_related_name"))
\*     .values("code", "n_students"): one group per Section
StudentsPerSectionRows ==
    {[code |-> s.code,
      n_students |-> Count({j \in SectionJoinStudents : j.s = s})] :
        s \in {j.s : j \in SectionJoinStudents}}

\* Section.objects.values("code", "name")
\*     .annotate(n_students=Count("section_related_name")): GROUP BY code, name
StudentsPerCodeNameRows ==
    {[code |-> k[1], name |-> k[2],
      n_students |->
          Count({j \in SectionJoinStudents : j.s.code = k[1] /\ j.s.name = k[2]})] :
        k \in {<<j.s.code, j.s.name>> : j \in SectionJoinStudents}}

\* n_all as Count("enrollments_related_name__student", distinct=True)
EnrollmentsPerSectionRowsDistinct ==
    {[code |-> s.code,
      n_all |-> Cardinality({j.r.student :
                    j \in {x \in SectionJoinEnrollments : x.s = s /\ ~ x.null}}),
      n_active |-> CountActive({j \in SectionJoinEnrollments : j.s = s})] :
        s \in {j.s : j \in SectionJoinEnrollments}}

\* Section.objects.annotate(n_all=Count(...), n_active=Count(..., filter=...))
\*     .values("code", "n_all", "n_active"): one group per Section
EnrollmentsPerSectionRows ==
    {[code |-> s.code,
      n_all |-> Count({j \in SectionJoinEnrollments : j.s = s}),
      n_active |-> CountActive({j \in SectionJoinEnrollments : j.s = s})] :
        s \in {j.s : j \in SectionJoinEnrollments}}

\* GROUP BY term, code: Meta.ordering leaking into the grouping.
StudentsPerTermAndCodeRows ==
    {[term |-> s.term,
      n_students |-> Count({j \in SectionJoinStudents : j.s = s})] :
        s \in {j.s : j \in SectionJoinStudents}}

\* Section.objects.values("term")
\*     .annotate(n_students=Count("section_related_name")): GROUP BY term
StudentsPerTermRows ==
    {[term |-> t,
      n_students |-> Count({j \in SectionJoinStudents : j.s.term = t})] :
        t \in {j.s.term : j \in SectionJoinStudents}}

\* n_enrolls counted over a join that also pulls in the Students of the
\* Section, so each Enrollment counts once per Student.
EnrollmentsPerCodeRowsFanOut ==
    {[code |-> c,
      n_enrolls |->
          Cardinality({p \in SectionJoinEnrollments \X SectionJoinStudents :
                          /\ p[1].s.code = c /\ p[2].s.code = c /\ ~ p[1].null}),
      n_active |-> CountActive({j \in SectionJoinEnrollments : j.s.code = c})] :
        c \in {j.s.code : j \in SectionJoinEnrollments}}

\* Section.objects.values("code")
\*     .annotate(n_enrolls=Count(...), n_active=Count(..., filter=...)):
\* GROUP BY code
EnrollmentsPerCodeRows ==
    {[code |-> c,
      n_enrolls |-> Count({j \in SectionJoinEnrollments : j.s.code = c}),
      n_active |-> CountActive({j \in SectionJoinEnrollments : j.s.code = c})] :
        c \in {j.s.code : j \in SectionJoinEnrollments}}

\* Section.objects.annotate(n_enrolls=..., n_active=...)
\*     .values("code", "n_enrolls", "n_active"): one group per Section
EnrollmentsPerSectionCtxRows ==
    {[code |-> s.code,
      n_enrolls |-> Count({j \in SectionJoinEnrollments : j.s = s}),
      n_active |-> CountActive({j \in SectionJoinEnrollments : j.s = s})] :
        s \in {j.s : j \in SectionJoinEnrollments}}

\* [f(x) for x in rows]
Column(rows, F(_)) == [i \in DOMAIN rows |-> F(rows[i])]

GetCode(r) == r.code
GetNStudents(r) == r.n_students

\* ASCII lower case, the folding of LIKE
Lower(c) == IF c >= 65 /\ c <= 90 THEN c + 32 ELSE c

\* <column>__icontains=q
IContains(s, q) ==
    \E i \in 0 .. Len(s) - Len(q) :
        \A k \in 1 .. Len(q) : Lower(s[i + k]) = Lower(q[k])

----------------------------------------------------------------------------
\* Read-only handlers

\* views.api_students_per_section
api_students_per_section ==
    \E rows \in Orderings(StudentsPerSectionRows, ByCode) :
        Rendered(Resp("api_students_per_section", 0, "200",
                      [labels |-> Column(rows, GetCode),
                       counts |-> Column(rows, GetNStudents)]))

\* views.api_enrollments_per_section
api_enrollments_per_section ==
    \E rows \in Orderings(EnrollmentsPerSectionRows, ByCode) :
        Rendered(Resp("api_enrollments_per_section", 0, "200", [results |-> rows]))

----------------------------------------------------------------------------
\* The server process and the chart handler, which asks its own server

\* "/charts/enrollments.png" and "/api/sections/enrollments/" of urls.py
ChartPath == "/charts/enrollments.png"
ApiPath == "/api/sections/enrollments/"

\* A browser sends GET path: the connection waits on the server's socket.
Receive(path) ==
    /\ server' = [server EXCEPT
                     !.inbox = Append(@, [id |-> server.next_id, path |-> path,
                                          from |-> 0]),
                     !.next_id = @ + 1]
    /\ UNCHANGED <<sections, students, enrollments, seq, response, csv_export,
                   json_export, posts>>

\* A worker with nothing to do takes the oldest waiting connection and
\* calls the view its path routes to.
Accept(w) ==
    /\ w \in DOMAIN server.serving
    /\ server.serving[w].pc = "idle"
    /\ server.inbox # << >>
    /\ LET r == Head(server.inbox) IN
       server' = [server EXCEPT
                     !.inbox = Tail(@),
                     !.serving[w] = [id |-> r.id, path |-> r.path, from |-> r.from,
                                     pc |-> "handler", payload |-> << >>]]
    /\ UNCHANGED <<sections, students, enrollments, seq, response, csv_export,
                   json_export, posts>>

\* enrollments_chart_png up to urllib.request.urlopen(api_url): api_url is
\* "api-enrollments-per-section" on the host of the request, so the GET goes
\* to this same server, and urlopen, given no timeout, blocks until the
\* reply comes.
ChartUrlopen(w) ==
    /\ w \in DOMAIN server.serving
    /\ server.serving[w].path = ChartPath
    /\ server.serving[w].pc = "handler"
    /\ server' = [server EXCEPT
                     !.inbox = Append(@, [id |-> server.next_id, path |-> ApiPath,
                                          from |-> w]),
                     !.next_id = @ + 1,
                     !.serving[w].pc = "urlopen"]
    /\ UNCHANGED <<sections, students, enrollments, seq, response, csv_export,
                   json_export, posts>>

\* A worker runs api_enrollments_per_section and replies: to the browser,
\* or to the urlopen of the worker that asked.
ServeApi(w) ==
    /\ w \in DOMAIN server.serving
    /\ server.serving[w].path = ApiPath
    /\ server.serving[w].pc = "handler"
    /\ \E rows \in Orderings(EnrollmentsPerSectionRows, ByCode) :
          LET r == server.serving[w]
              replied == [server EXCEPT !.serving[w] = Idle,
                                        !.answered = @ \cup {r.id}]
          IN /\ server' = IF r.from = 0 THEN replied
                          ELSE [replied EXCEPT !.serving[r.from].payload = rows,
                                               !.serving[r.from].pc = "render"]
             /\ response' = Resp("api_enrollments_per_section", r.id, "200",
                                 [results |-> rows])
    /\ UNCHANGED <<sections, students, enrollments, seq, csv_export, json_export,
                   posts>>

GetNAll(r) == r.n_all
GetNActive(r) == r.n_active

\* enrollments_chart_png once urlopen has returned: the rows of the payload
\* become the bars of the PNG, which is the response.
ChartRender(w) ==
    /\ w \in DOMAIN server.serving
    /\ server.serving[w].pc = "render"
    /\ LET r == server.serving[w] IN
       /\ server' = [server EXCEPT !.serving[w] = Idle,
                                   !.answered = @ \cup {r.id}]
       /\ response' = Resp("enrollments_chart_png", r.id, "200",
                           [labels |-> Column(r.payload, GetCode),
                            all_counts |-> Column(r.payload, GetNAll),
                            active_counts |-> Column(r.payload, GetNActive)])
    /\ UNCHANGED <<sections, students, enrollments, seq, csv_export, json_export,
                   posts>>

\* What the server process does by itself, requests arriving apart.
ServerStep ==
    \E w \in 1 .. MaxWorkers :
        Accept(w) \/ ChartUrlopen(w) \/ ServeApi(w) \/ ChartRender(w)

\* request.GET of the list page: q absent, or q with a value
NoQ == [present |-> FALSE, value |-> EmptyStr]
WithQ(v) == [present |-> TRUE, value |-> v]

\* views.StudentListView.get_context_data
StudentListView(q) ==
    \E search \in
         IF q.present /\ q.value # EmptyStr
         THEN Orderings({t \in students : IContains(t.first_name, q.value)}, ByLastFirst)
         ELSE {<< >>},
       perSection \in Orderings(StudentsPerCodeNameRows, ByCode),
       perEnroll \in Orderings(EnrollmentsPerCodeRows, ByCode),
       perTerm \in Orderings(StudentsPerTermRows, ByTerm) :
        Rendered(Resp("StudentListView", 0, "200",
                      [q |-> q,
                       search_results |-> search,
                       total_students |-> Cardinality(students),
                       total_enrollments |-> Cardinality(enrollments),
                       students_per_section |-> perSection,
                       enrollments_per_section |-> perEnroll,
                       students_per_term |-> perTerm]))

\* views.SectionListView.get_context_data
SectionListView ==
    \E perSection \in Orderings(StudentsPerCodeNameRows, ByCode),
       perTerm \in Orderings(StudentsPerTermRows, ByTerm),
       perEnroll \in Orderings(EnrollmentsPerSectionCtxRows, ByCode) :
        Rendered(Resp("SectionListView", 0, "200",
                      [students_per_section |-> perSection,
                       students_per_term |-> perTerm,
                       enrollments_per_section |-> perEnroll]))

----------------------------------------------------------------------------
\* Search handlers

\* "Bo", "Kim", "Ace"
NameBo == <<66, 111>>
NameKim == <<75, 105, 109>>
NickAce == <<65, 99, 101>>

\* The people the search handlers are tried on: first name, last name,
\* nickname.
SearchPeople ==
    {<<NameAl, NameLee, EmptyStr>>, <<NameBo, NameKim, EmptyStr>>,
     <<NameBo, NameLee, NickAce>>}

\* Student.objects.create(...) with a nickname
StudentCreateNicknamed(first, last, nick, email, sec) ==
    /\ StudentInsert("student.create",
                     Student(0, first, last, nick, email, sec), "ok")
    /\ UNCHANGED <<sections, enrollments>>

\* (request.GET.get("q") or "").strip()
StrippedQ(query) == IF query.present THEN Strip(query.value) ELSE EmptyStr

\* Q(first_name__icontains=q) | Q(last_name__icontains=q)
\*     | Q(nickname__icontains=q)
QNameOrNickname(t, q) ==
    \/ IContains(t.first_name, q)
    \/ IContains(t.last_name, q)
    \/ IContains(t.nickname, q)

\* .values("student_id", "first_name", "last_name", "nickname", "email",
\*         "section__code"): Student INNER JOIN section
StudentValues(qs) ==
    {[student_id |-> p[1].student_id,
      first_name |-> p[1].first_name,
      last_name |-> p[1].last_name,
      nickname |-> p[1].nickname,
      email |-> p[1].email,
      section__code |-> p[2].code] :
        p \in {x \in qs \X sections : x[1].section = x[2].section_id}}

\* {"count": len(data), "results": data} for each order the database may
\* return the rows in
Payloads(qs) ==
    {[count |-> Len(data), results |-> data] :
        data \in Orderings(qs, ByLastFirst)}

\* The first def api_students of views.py, which the second one replaces
\* when the module is imported.
api_students_first_json(query) ==
    LET q == StrippedQ(query)
        all == StudentValues(students)
        qs == IF q # EmptyStr
              THEN StudentValues({t \in students : QNameOrNickname(t, q)})
              ELSE all
    IN Payloads(qs)

\* api_students with q used as it arrives.
api_students_json_unstripped(query) ==
    LET q == IF query.present THEN query.value ELSE EmptyStr
        qs == IF q # EmptyStr
              THEN StudentValues({t \in students : QNameOrNickname(t, q)})
              ELSE StudentValues(students)
    IN Payloads(qs)

\* The JSON of views.api_students (the second definition, the one routed)
api_students_json(query) ==
    LET q == StrippedQ(query)
        all == StudentValues(students)
        qs == IF q # EmptyStr
              THEN StudentValues({t \in students : QNameOrNickname(t, q)})
              ELSE all
    IN Payloads(qs)

\* StudentsAPI.get filtering on the first name alone, as the list page does.
StudentsAPI_json_first_name_only(query) ==
    LET q == StrippedQ(query)
        qs == IF q # EmptyStr
              THEN {t \in students : IContains(t.first_name, q)}
              ELSE students
    IN Payloads(StudentValues(qs))

\* The JSON of views.StudentsAPI.get: the filter narrows Student.objects.all()
\* and the values() come last.
StudentsAPI_json(query) ==
    LET q == StrippedQ(query)
        all == students
        qs == IF q # EmptyStr
              THEN {t \in all : QNameOrNickname(t, q)}
              ELSE all
    IN Payloads(StudentValues(qs))

\* views.api_students
api_students(query) ==
    \E payload \in api_students_json(query) :
        Rendered(Resp("api_students", 0, "200",
                      [request |-> query, payload |-> payload]))

\* views.StudentsAPI.get
StudentsAPI(query) ==
    \E payload \in StudentsAPI_json(query) :
        Rendered(Resp("StudentsAPI", 0, "200",
                      [request |-> query, payload |-> payload]))

----------------------------------------------------------------------------
\* Export handlers

\* str(n) of a non-negative integer
RECURSIVE IntStr(_)
IntStr(n) ==
    IF n < 10 THEN <<48 + n>> ELSE IntStr(n \div 10) \o <<48 + (n % 10)>>

RECURSIVE DoubleQuotes(_)
DoubleQuotes(s) ==
    IF s = << >> THEN << >>
    ELSE (IF Head(s) = 34 THEN <<34, 34>> ELSE <<Head(s)>>)
         \o DoubleQuotes(Tail(s))

\* csv.writer, QUOTE_MINIMAL: a field holding the delimiter (code 44), the
\* quote character (code 34) or a line break is quoted, its quotes doubled.
CsvField(s) ==
    IF \E i \in DOMAIN s : s[i] \in {44, 34, 10, 13}
    THEN <<34>> \o DoubleQuotes(s) \o <<34>>
    ELSE s

\* The readings of datetime.now(), in seconds.
Clock == {59, 60}

\* strftime("%Y-%m-%d_%H-%M"): the minute of the reading
Minute(t) == t \div 60

\* Student.objects.select_related("section")
\*     .values("student_id", "first_name", "last_name", "email", "section__code"):
\* Student INNER JOIN section
StudentRosterRows ==
    {[student_id |-> p[1].student_id,
      first_name |-> p[1].first_name,
      last_name |-> p[1].last_name,
      email |-> p[1].email,
      section__code |-> p[2].code] :
        p \in {x \in students \X sections : x[1].section = x[2].section_id}}

\* "student_id", "first_name", "last_name", "email", "section_code"
CsvHeader ==
    << <<115, 116, 117, 100, 101, 110, 116, 95, 105, 100>>,
       <<102, 105, 114, 115, 116, 95, 110, 97, 109, 101>>,
       <<108, 97, 115, 116, 95, 110, 97, 109, 101>>,
       <<101, 109, 97, 105, 108>>,
       <<115, 101, 99, 116, 105, 111, 110, 95, 99, 111, 100, 101>> >>

\* writer.writerow(row) of a values_list tuple
CsvRow(r) ==
    <<CsvField(IntStr(r.student_id)), CsvField(r.first_name),
      CsvField(r.last_name), CsvField(r.email), CsvField(r.section__code)>>

\* views.export_students_csv
export_students_csv ==
    \E timestamp \in Clock, rows \in Orderings(StudentRosterRows, ByLastFirst) :
        /\ csv_export' = [ready |-> TRUE,
                          filename |-> Minute(timestamp),
                          lines |-> <<CsvHeader>> \o Column(rows, CsvRow)]
        /\ response' = Resp("export_students_csv", 0, "200", {})
        /\ UNCHANGED <<sections, students, enrollments, seq, json_export,
                       server, posts>>

\* views.export_students_json
export_students_json ==
    \E data \in Orderings(StudentRosterRows, ByLastFirst),
       generated \in Clock, timestamp \in Clock :
        /\ json_export' = [ready |-> TRUE,
                           filename |-> Minute(timestamp),
                           generated_at |-> generated,
                           record_count |-> Len(data),
                           students |-> data]
        /\ response' = Resp("export_students_json", 0, "200", {})
        /\ UNCHANGED <<sections, students, enrollments, seq, csv_export,
                       server, posts>>

----------------------------------------------------------------------------
\* External weather collaborator

\* The "current_weather" objects the forecast endpoint may send.
CurrentWeathers ==
    [temperature : 18 .. 22, windspeed : 5 .. 9, weathercode : 0 .. 3]

NoWeather == [temperature |-> 0, windspeed |-> 0, weathercode |-> 0]

\* Response bodies: a JSON object with or without the "current_weather"
\* key, JSON that is no object (an array, a string, a number, null), and
\* text that is no JSON.
Bodies ==
    {[json |-> "object", has_cw |-> TRUE, cw |-> w] : w \in CurrentWeathers}
    \cup {[json |-> j, has_cw |-> FALSE, cw |-> NoWeather] :
            j \in {"object", "array", "string", "number", "null", "invalid"}}

\* What requests.get(url, params=params, timeout=5) may do: raise, or
\* return a response.
Upstream ==
    {[raised |-> e, status |-> 0, body |-> [json |-> "invalid", has_cw |-> FALSE,
                                            cw |-> NoWeather]] :
        e \in {"ConnectionError", "Timeout"}}
    \cup [raised : {"none"}, status : {200, 204, 304, 404, 429, 500, 503},
          body : Bodies]

\* JsonResponse({"ok": True, "weather": ...})
WeatherOk(weather) ==
    Resp("WeatherNow", 0, "200", [ok |-> TRUE, weather |-> weather])

\* JsonResponse({"ok": False, "error": str(e)}, status=502)
WeatherError(e, status) ==
    Resp("WeatherNow", 0, "502", [ok |-> FALSE, error |-> <<e, status>>])

\* An exception no except clause of the handler catches: the request ends
\* in the server's error response.
Uncaught(op, e) == Resp(op, 0, "500", [ok |-> FALSE, exception |-> e])

\* WeatherNow.get, from the outcome of the upstream call to the response.
\* raise_for_status raises HTTPError for 4xx and 5xx; response.json() raises
\* requests' JSONDecodeError, a RequestException, on text that is no JSON;
\* .get("current_weather", {}) exists on a dict only.
WeatherNowGet(o) ==
    IF o.raised # "none" THEN WeatherError(o.raised, 0)
    ELSE IF o.status >= 400 /\ o.status < 600 THEN WeatherError("HTTPError", o.status)
    ELSE IF o.body.json = "invalid" THEN WeatherError("JSONDecodeError", 0)
    ELSE IF o.body.json # "object" THEN Uncaught("WeatherNow", "AttributeError")
    ELSE IF o.body.has_cw THEN WeatherOk([present |-> TRUE, cw |-> o.body.cw])
    ELSE WeatherOk([present |-> FALSE, cw |-> NoWeather])

\* views.WeatherNow
WeatherNow == \E o \in Upstream : Rendered(WeatherNowGet(o))

----------------------------------------------------------------------------
\* Spec: the three tables under every write path (forms, admin, direct ORM
\* calls), sections of one term, enrollments of the default is_active.

Next ==
    \/ /\ seq.section < MaxSections
       /\ \E code \in Codes : SectionInsert(code, TermFall)
    \/ \E id \in 1 .. MaxSections : SectionDelete(id)
    \/ /\ seq.student < MaxStudents
       /\ \E post \in StudentPosts : add_student("POST", post)
    \/ add_student("GET", EmptyPost)
    \/ /\ seq.student < MaxStudents
       /\ \E post \in StudentPosts : StudentCreateView("POST", post)
    \/ StudentCreateView("GET", EmptyPost)
    \/ /\ seq.student < MaxStudents
       /\ \E email \in Emails, sec \in 1 .. MaxSections :
             StudentCreate(NameAl, NameLee, email, sec)
    \/ \E id \in 1 .. MaxStudents, sec \in 1 .. MaxSections :
          StudentSave(id, NameAl, sec)
    \/ \E id \in 1 .. MaxStudents : StudentDelete(id)
    \/ /\ seq.enrollment < MaxEnrollments
       /\ \E stu \in 1 .. MaxStudents, sec \in 1 .. MaxSections :
             EnrollmentCreate(stu, sec, TRUE)
    \/ /\ seq.enrollment < MaxEnrollments
       /\ \E stu \in 1 .. MaxStudents, sec \in 1 .. MaxSections :
             EnrollmentAdminAdd(stu, sec, TRUE)
    \/ \E id \in 1 .. MaxEnrollments : EnrollmentDelete(id)

Spec == Init /\ [][Next]_vars

----------------------------------------------------------------------------
\* DeletionSpec: the tables filled by direct inserts (which store every row
\* the forms can store), under the three delete() calls.

DeletionNext ==
    \/ /\ seq.section < MaxSections
       /\ \E code \in Codes : SectionInsert(code, TermFall)
    \/ \E id \in 1 .. MaxSections : SectionDelete(id)
    \/ /\ seq.student < MaxStudents
       /\ \E email \in Emails, sec \in 1 .. MaxSections :
             StudentCreate(NameAl, NameLee, email, sec)
    \/ \E id \in 1 .. MaxStudents : StudentDelete(id)
    \/ /\ seq.enrollment < MaxEnrollments
       /\ \E stu \in 1 .. MaxStudents, sec \in 1 .. MaxSections :
             EnrollmentCreate(stu, sec, TRUE)
    \/ \E id \in 1 .. MaxEnrollments : EnrollmentDelete(id)

DeletionSpec == Init /\ [][DeletionNext]_vars

----------------------------------------------------------------------------
\* AggregationSpec: tables filled by direct inserts, under the handlers that
\* aggregate per section.

AggregationNext ==
    \/ /\ seq.section < MaxSections
       /\ \E code \in Codes : SectionInsert(code, TermFall)
    \/ /\ seq.student < MaxStudents
       /\ \E email \in Emails, sec \in 1 .. MaxSections :
             StudentCreate(NameAl, NameLee, email, sec)
    \/ /\ seq.enrollment < MaxEnrollments
       /\ \E stu \in 1 .. MaxStudents, sec \in 1 .. MaxSections, active \in BOOLEAN :
             EnrollmentCreate(stu, sec, active)
    \/ api_students_per_section
    \/ api_enrollments_per_section
    \/ StudentListView(NoQ)

AggregationSpec == Init /\ [][AggregationNext]_vars

----------------------------------------------------------------------------
\* TermSpec: sections of either term and their students, under the list
\* pages that aggregate per term.

TermNext ==
    \/ /\ seq.section < MaxSections
       /\ \E code \in Codes, term \in Terms : SectionInsert(code, term)
    \/ /\ seq.student < MaxStudents
       /\ \E email \in Emails, sec \in 1 .. MaxSections :
             StudentCreate(NameAl, NameLee, email, sec)
    \/ \E id \in 1 .. MaxStudents, sec \in 1 .. MaxSections :
          StudentSave(id, NameAl, sec)
    \/ \E id \in 1 .. MaxStudents : StudentDelete(id)
    \/ \E q \in {NoQ, WithQ(<<97>>)} : StudentListView(q)
    \/ SectionListView

TermSpec == Init /\ [][TermNext]_vars

----------------------------------------------------------------------------
\* SearchSpec: students with and without nicknames, under the three handlers
\* that take ?q=.

\* ?q= absent, "", " ", "a", " K ", "C", "z"
SearchQs ==
    {NoQ, WithQ(EmptyStr), WithQ(<<32>>), WithQ(<<97>>), WithQ(<<32, 75, 32>>),
     WithQ(<<67>>), WithQ(<<122>>)}

SearchNext ==
    \/ /\ seq.section < MaxSections
       /\ SectionInsert(CS101A, TermFall)
    \/ /\ seq.student < MaxStudents
       /\ \E who \in SearchPeople, email \in Emails, sec \in 1 .. MaxSections :
             StudentCreateNicknamed(who[1], who[2], who[3], email, sec)
    \/ \E query \in SearchQs : api_students(query)
    \/ \E query \in SearchQs : StudentsAPI(query)
    \/ \E query \in SearchQs : StudentListView(query)

SearchSpec == Init /\ [][SearchNext]_vars

----------------------------------------------------------------------------
\* FormSpec: the two student forms, with the deletions that free an email or
\* remove a section again.

FormNext ==
    \/ /\ seq.section < MaxSections
       /\ \E code \in Codes : SectionInsert(code, TermFall)
    \/ \E id \in 1 .. MaxSections : SectionDelete(id)
    \/ /\ seq.student < MaxStudents
       /\ \E post \in StudentPosts : add_student("POST", post)
    \/ add_student("GET", EmptyPost)
    \/ /\ seq.student < MaxStudents
       /\ \E post \in StudentPosts : StudentCreateView("POST", post)
    \/ StudentCreateView("GET", EmptyPost)
    \/ \E id \in 1 .. MaxStudents : StudentDelete(id)

FormSpec == Init /\ [][FormNext]_vars

----------------------------------------------------------------------------
\* RaceSpec: two add_student POSTs served at the same time, each validated
\* and saved in two steps that the other may come between.

RaceNext ==
    \/ /\ seq.section < MaxSections
       /\ \E code \in Codes : SectionInsert(code, TermFall)
    \/ \E c \in PostClients, post \in StudentPosts : AddStudentIsValid(c, post)
    \/ \E c \in PostClients : AddStudentSave(c)

RaceSpec == Init /\ [][RaceNext]_vars

----------------------------------------------------------------------------
\* ServerSpec: the server process started with one worker or more, browsers
\* asking for the chart and for the JSON behind it.

ServerInit ==
    /\ server \in {IdleServer(n) : n \in 1 .. MaxWorkers}
    /\ posts = [c \in PostClients |-> NoPost]
    /\ sections = {}
    /\ students = {}
    /\ enrollments = {}
    /\ seq = [section |-> 0, student |-> 0, enrollment |-> 0]
    /\ response = NoResponse
    /\ csv_export = NoExport
    /\ json_export = NoExport

ServerNext ==
    \/ /\ seq.section < MaxSections
       /\ \E code \in Codes : SectionInsert(code, TermFall)
    \/ /\ server.next_id <= MaxRequests
       /\ \E path \in {ChartPath, ApiPath} : Receive(path)
    \/ \E w \in 1 .. MaxWorkers : Accept(w)
    \/ \E w \in 1 .. MaxWorkers : ChartUrlopen(w)
    \/ \E w \in 1 .. MaxWorkers : ServeApi(w)
    \/ \E w \in 1 .. MaxWorkers : ChartRender(w)

ServerSpec == ServerInit /\ [][ServerNext]_vars

----------------------------------------------------------------------------
\* RepeatSpec: sections of either term with students and enrollments, under
\* every handler that evaluates an aggregation query.

\* How many enrollments the repeated reads are tried on.
RepeatEnrollments == 1

RepeatNext ==
    \/ /\ seq.section < MaxSections
       /\ \E code \in Codes, term \in Terms : SectionInsert(code, term)
    \/ /\ seq.student < MaxStudents
       /\ \E email \in Emails, sec \in 1 .. MaxSections :
             StudentCreate(NameAl, NameLee, email, sec)
    \/ /\ seq.enrollment < RepeatEnrollments
       /\ \E stu \in 1 .. MaxStudents, sec \in 1 .. MaxSections, active \in BOOLEAN :
             EnrollmentCreate(stu, sec, active)
    \/ \E id \in 1 .. MaxStudents : StudentDelete(id)
    \/ api_students_per_section
    \/ api_enrollments_per_section
    \/ StudentListView(NoQ)
    \/ SectionListView

RepeatSpec == Init /\ [][RepeatNext]_vars

----------------------------------------------------------------------------
\* ScenarioSpec: the single section CS101-A, its students and their
\* enrollments, under the two per-section endpoints.

ScenarioEnrollments == 3

ScenarioNext ==
    \/ /\ seq.section < MaxSections
       /\ SectionInsert(CS101A, TermFall)
    \/ /\ seq.student < MaxStudents
       /\ \E email \in Emails, sec \in 1 .. MaxSections :
             StudentCreate(NameAl, NameLee, email, sec)
    \/ /\ seq.enrollment < ScenarioEnrollments
       /\ \E stu \in 1 .. MaxStudents, sec \in 1 .. MaxSections, active \in BOOLEAN :
             EnrollmentCreate(stu, sec, active)
    \/ /\ seq.enrollment < ScenarioEnrollments
       /\ \E stu \in 1 .. MaxStudents, sec \in 1 .. MaxSections, active \in BOOLEAN :
             EnrollmentAdminAdd(stu, sec, active)
    \/ api_students_per_section
    \/ api_enrollments_per_section

ScenarioSpec == Init /\ [][ScenarioNext]_vars

----------------------------------------------------------------------------
\* ExportSpec: sections, and students entered through the validated form,
\* under the two export handlers.

\* Valid posts of the student form, one of the first names needing CSV quotes.
ExportPosts ==
    [first_name : {NameAl, NameAComma}, last_name : {NameLee},
     nickname : Nicknames, email : Emails, section : PostSections]

ExportNext ==
    \/ /\ seq.section < MaxSections
       /\ \E code \in Codes : SectionInsert(code, TermFall)
    \/ /\ seq.student < MaxStudents
       /\ \E post \in ExportPosts : add_student("POST", post)
    \/ \E id \in 1 .. MaxStudents : StudentDelete(id)
    \/ export_students_csv
    \/ export_students_json

ExportSpec == Init /\ [][ExportNext]_vars

----------------------------------------------------------------------------
\* WeatherSpec: the weather endpoint under every outcome of the upstream
\* call.

WeatherNext == WeatherNow

WeatherSpec == Init /\ [][WeatherNext]_vars

----------------------------------------------------------------------------
\* Properties of the write paths (C2, C3 checked under Spec; C4, C5 under
\* DeletionSpec)

SameNameInSection(a, b) ==
    /\ a.first_name = b.first_name
    /\ a.last_name = b.last_name
    /\ a.section = b.section

\* C2: after any sequence of Student creations, updates and deletions, no
\* two stored Students share the same (first_name, last_name, section)
\* triple, a duplicating insert being rejected at write time.
C2_StudentNameUniqueInSection ==
    \A a \in students, b \in students :
        a.student_id # b.student_id => ~ SameNameInSection(a, b)

\* C3: after any sequence of Enrollment inserts and deletions, no two stored
\* Enrollments share the same (student, section) pair, a duplicating insert
\* being rejected at write time.
C3_EnrollmentUniquePerStudentPerSection ==
    \A a \in enrollments, b \in enrollments :
        a.enroll_id # b.enroll_id =>
            ~ (a.student = b.student /\ a.section = b.section)

SectionReferenced(id) ==
    \/ \E t \in students : t.section = id
    \/ \E e \in enrollments : e.section = id

\* C4: deleting a Section that at least one Student or Enrollment references
\* fails with a constraint error and leaves the three tables unchanged;
\* deleting a Section nothing references removes it, and only it.
C4_SectionDeleteProtected ==
    [][\A id \in 1 .. MaxSections :
          (response'.op = "section.delete" /\ response'.arg = id) =>
              IF SectionReferenced(id)
              THEN /\ response'.status = "ProtectedError"
                   /\ tables' = tables
              ELSE /\ response'.status = "deleted"
                   /\ sections' = {s \in sections : s.section_id # id}
                   /\ students' = students
                   /\ enrollments' = enrollments]_vars

\* A deletion refused for a Section that only an Enrollment references.
C4_Witness ==
    /\ response.op = "section.delete"
    /\ response.status = "ProtectedError"
    /\ \E e \in enrollments : e.section = response.arg
    /\ \A t \in students : t.section # response.arg

\* C5: deleting a Student always succeeds and removes exactly that Student
\* and every Enrollment of that Student; every Section, every other Student
\* and every Enrollment of another Student stays as it was.
C5_StudentDeleteCascades ==
    [][\A id \in 1 .. MaxStudents :
          (response'.op = "student.delete" /\ response'.arg = id) =>
              /\ response'.status = "deleted"
              /\ students' = {t \in students : t.student_id # id}
              /\ enrollments' = {e \in enrollments : e.student # id}
              /\ sections' = sections]_vars

\* A Student deleted with an Enrollment of its own, another Student and that
\* Student's Enrollment being left.
C5_Witness ==
    /\ response.op = "student.delete"
    /\ response.status = "deleted"
    /\ Cardinality(enrollments) = 1
    /\ seq.enrollment = 2
    /\ \A e \in enrollments : e.student # response.arg
    /\ students # {}

----------------------------------------------------------------------------
\* Properties of the aggregation handlers

SectionWithCode(c) == CHOOSE s \in sections : s.code = c

StudentsIn(c) ==
    {t \in students : t.section = SectionWithCode(c).section_id}

EnrollmentsIn(c) ==
    {e \in enrollments : e.section = SectionWithCode(c).section_id}

\* The codes of all Sections, once each, in ascending order.
IsSectionCodesAscending(codes) ==
    /\ Len(codes) = Cardinality(sections)
    /\ {codes[i] : i \in DOMAIN codes} = {s.code : s \in sections}
    /\ \A i, j \in DOMAIN codes : i < j => StrLess(codes[i], codes[j])

\* C1: the per-section aggregation returns exactly one row per Section,
\* ordered by code ascending, with n_students the number of Students of the
\* Section, n_all the number of its Enrollments and n_active the number of
\* those that are active; a Section with none still appears, with counts 0.
C1_PerSectionAggregation ==
    /\ response.op = "api_students_per_section" =>
          /\ IsSectionCodesAscending(response.body.labels)
          /\ Len(response.body.counts) = Len(response.body.labels)
          /\ \A i \in DOMAIN response.body.labels :
                response.body.counts[i] =
                    Cardinality(StudentsIn(response.body.labels[i]))
    /\ response.op = "api_enrollments_per_section" =>
          /\ IsSectionCodesAscending(Column(response.body.results, GetCode))
          /\ \A i \in DOMAIN response.body.results :
                LET r == response.body.results[i] IN
                /\ r.n_all = Cardinality(EnrollmentsIn(r.code))
                /\ r.n_active =
                       Cardinality({e \in EnrollmentsIn(r.code) : e.is_active})

\* Two Sections listed, the first without any Enrollment, the second with
\* an active and an inactive one.
C1_Witness ==
    /\ response.op = "api_enrollments_per_section"
    /\ Len(response.body.results) = 2
    /\ response.body.results[1].n_all = 0
    /\ response.body.results[2].n_all = 2
    /\ response.body.results[2].n_active = 1

\* C8: in every reachable datastore state and for every Section, the
\* per-section aggregation's n_active never exceeds its n_all (n_enrolls).
C8_ActiveAtMostAll ==
    /\ response.op = "api_enrollments_per_section" =>
          \A i \in DOMAIN response.body.results :
              response.body.results[i].n_active <= response.body.results[i].n_all
    /\ response.op = "StudentListView" =>
          \A i \in DOMAIN response.body.enrollments_per_section :
              response.body.enrollments_per_section[i].n_active
                  <= response.body.enrollments_per_section[i].n_enrolls

\* The list page over a Section with an active and an inactive Enrollment
\* and a Section with none.
C8_Witness ==
    /\ response.op = "StudentListView"
    /\ \E i \in DOMAIN response.body.enrollments_per_section :
          /\ response.body.enrollments_per_section[i].n_active = 1
          /\ response.body.enrollments_per_section[i].n_enrolls = 2
    /\ \E i \in DOMAIN response.body.enrollments_per_section :
          response.body.enrollments_per_section[i].n_enrolls = 0

\* The scenario of C9: CS101-A has two Students, one holding an active and
\* an inactive Enrollment, the other holding one active Enrollment.
ScenarioState ==
    \E s \in sections :
        /\ s.code = CS101A
        /\ \E a \in students, b \in students :
              /\ a # b
              /\ {t \in students : t.section = s.section_id} = {a, b}
              /\ \E x \in enrollments, y \in enrollments, z \in enrollments :
                    /\ {e \in enrollments : e.section = s.section_id} = {x, y, z}
                    /\ Cardinality({x, y, z}) = 3
                    /\ x.student = a.student_id /\ x.is_active
                    /\ y.student = a.student_id /\ ~ y.is_active
                    /\ z.student = b.student_id /\ z.is_active

C10_PerTermAggregation ==
    response.op \in {"StudentListView", "SectionListView"} =>
        LET rows == response.body.students_per_term IN
        /\ {rows[i].term : i \in DOMAIN rows} = {s.term : s \in sections}
        /\ \A i, j \in DOMAIN rows : i < j => StrLess(rows[i].term, rows[j].term)
        /\ \A i \in DOMAIN rows :
              rows[i].n_students =
                  Cardinality({t \in students :
                                  \E s \in sections :
                                      /\ s.term = rows[i].term
                                      /\ t.section = s.section_id})

\* Two Sections of blank term with one Student each: a single row, of 2.
C10_Witness ==
    /\ response.op = "SectionListView"
    /\ Cardinality(sections) = 2
    /\ \A s \in sections :
          s.term = EmptyStr /\ \E t \in students : t.section = s.section_id
    /\ Len(response.body.students_per_term) = 1
    /\ response.body.students_per_term[1].n_students = 2

----------------------------------------------------------------------------
\* Properties of the export handlers (checked under ExportSpec)

RECURSIVE UndoubleQuotes(_)
UndoubleQuotes(s) ==
    IF s = << >> THEN << >>
    ELSE IF Len(s) >= 2 /\ s[1] = 34 /\ s[2] = 34
         THEN <<34>> \o UndoubleQuotes(Tail(Tail(s)))
         ELSE <<Head(s)>> \o UndoubleQuotes(Tail(s))

\* What a CSV reader gives back for a field.
CsvFieldValue(f) ==
    IF Len(f) >= 2 /\ f[1] = 34 /\ f[Len(f)] = 34
    THEN UndoubleQuotes(SubSeq(f, 2, Len(f) - 1))
    ELSE f

RECURSIVE StrInt(_)
StrInt(s) ==
    IF s = << >> THEN 0
    ELSE 10 * StrInt(SubSeq(s, 1, Len(s) - 1)) + (s[Len(s)] - 48)

\* The (student_id, first_name, last_name, email, section code) tuples of
\* the CSV file, header skipped, and of the JSON envelope.
CsvTuples ==
    [i \in 1 .. Len(csv_export.lines) - 1 |->
        LET l == csv_export.lines[i + 1] IN
        <<StrInt(CsvFieldValue(l[1])), CsvFieldValue(l[2]), CsvFieldValue(l[3]),
          CsvFieldValue(l[4]), CsvFieldValue(l[5])>>]

JsonTuples ==
    [i \in DOMAIN json_export.students |->
        LET r == json_export.students[i] IN
        <<r.student_id, r.first_name, r.last_name, r.email, r.section__code>>]

\* C6: export_students_csv and export_students_json run against the same
\* datastore state yield the same sequence of tuples, in the same order,
\* also when several Students share last_name and first_name.
C6_ExportsAgree ==
    (csv_export.ready /\ json_export.ready) => CsvTuples = JsonTuples

----------------------------------------------------------------------------
\* Properties of the weather endpoint (checked under WeatherSpec)

\* C7: for every outcome of the upstream call, WeatherNow.get answers
\* {ok: true, weather: ...} with a success status or {ok: false, error: ...}
\* with status 502; no exception leaves the handler.
C7_WeatherAlwaysStructured ==
    response.op = "WeatherNow" =>
        \/ response.status = "200" /\ response.body.ok
        \/ response.status = "502" /\ ~ response.body.ok

----------------------------------------------------------------------------
\* Properties of the search handlers (checked under SearchSpec)

\* q occurs in s, letters compared without regard to case
ContainsCI(s, q) ==
    \E i \in 1 .. Len(s) - Len(q) + 1 :
        [k \in 1 .. Len(q) |-> Lower(s[i + k - 1])] =
            [k \in 1 .. Len(q) |-> Lower(q[k])]

MatchesAnyName(t, q) ==
    \/ ContainsCI(t.first_name, q)
    \/ ContainsCI(t.last_name, q)
    \/ ContainsCI(t.nickname, q)

\* C11: api_students and StudentsAPI.get return exactly the Students for
\* which the trimmed q is a case-insensitive substring of first_name,
\* last_name or nickname (all Students when the trimmed q is empty), ordered
\* by last_name then first_name, and count is the number of results.
C11_SearchReturnsMatches ==
    response.op \in {"api_students", "StudentsAPI"} =>
        LET q == IF response.body.request.present
                 THEN Strip(response.body.request.value) ELSE EmptyStr
            results == response.body.payload.results
            expected == IF q = EmptyStr THEN students
                        ELSE {t \in students : MatchesAnyName(t, q)}
        IN /\ Len(results) = Cardinality(expected)
           /\ \A t \in expected :
                 \E i \in DOMAIN results :
                     /\ results[i].student_id = t.student_id
                     /\ results[i].first_name = t.first_name
                     /\ results[i].last_name = t.last_name
                     /\ results[i].nickname = t.nickname
                     /\ results[i].email = t.email
           /\ \A i, j \in DOMAIN results :
                 i < j =>
                     \/ StrLess(results[i].last_name, results[j].last_name)
                     \/ /\ results[i].last_name = results[j].last_name
                        /\ StrLeq(results[i].first_name, results[j].first_name)
           /\ response.body.payload.count = Len(results)

\* api_students asked for " K " with a Kim and someone else stored.
C11_Witness ==
    /\ response.op = "api_students"
    /\ response.body.request = WithQ(<<32, 75, 32>>)
    /\ response.body.payload.count = 1
    /\ response.body.payload.results[1].last_name = NameKim
    /\ Cardinality(students) = 2

\* C12: on the list page a non-empty ?q= yields search_results holding every
\* Student whose first name, last name or nickname contains q as a
\* case-insensitive substring.
C12_ListPageSearchesAllNames ==
    (/\ response.op = "StudentListView"
     /\ response.body.q.present
     /\ response.body.q.value # EmptyStr) =>
        \A t \in students :
            MatchesAnyName(t, response.body.q.value) =>
                \E i \in DOMAIN response.body.search_results :
                    response.body.search_results[i] = t

\* C20: the first api_students, the api_students that replaces it and
\* StudentsAPI.get can return the same {count, results} payloads for every
\* q, in every state of the tables.
C20_SearchHandlersEquivalent ==
    \A query \in SearchQs :
        /\ api_students_first_json(query) = api_students_json(query)
        /\ api_students_json(query) = StudentsAPI_json(query)

\* StudentsAPI.get asked for "C", which only a nickname matches.
C20_Witness ==
    /\ response.op = "StudentsAPI"
    /\ response.body.request = WithQ(<<67>>)
    /\ response.body.payload.count = 1
    /\ response.body.payload.results[1].nickname = NickAce
    /\ Cardinality(students) = 2

----------------------------------------------------------------------------
\* Properties of the student form (checked under FormSpec)

\* C14: an add_student POST whose form fails validation writes nothing and
\* re-renders the form with its errors; one whose form is valid creates
\* exactly one Student row and redirects.  Every step that ends in an
\* add_student response is one of the two (or a GET, which renders the
\* empty form and writes nothing).
C14_InvalidPostWritesNothing ==
    [][response'.op = "add_student" =>
          \/ /\ response'.status = "200"
             /\ tables' = tables
             /\ seq' = seq
          \/ /\ response'.status = "302"
             /\ response'.body = {}
             /\ sections' = sections
             /\ enrollments' = enrollments
             /\ \E row \in students' \ students :
                   /\ students' = students \cup {row}
                   /\ row.student_id = response'.arg]_vars

\* The form re-rendered with an error on email while a Student is stored.
C14_Witness ==
    /\ response.op = "add_student"
    /\ response.status = "200"
    /\ "email" \in response.body
    /\ Cardinality(students) = 1

----------------------------------------------------------------------------
\* Properties of Enrollment deletion (checked under DeletionSpec)

\* The Section of an Enrollment exists and something else references it.
SectionHasOtherDependents(e) ==
    /\ \E s \in sections : s.section_id = e.section
    /\ \/ \E t \in students : t.section = e.section
       \/ \E o \in enrollments : o # e /\ o.section = e.section

\* C15: deleting an Enrollment directly is blocked while its Section exists
\* and has other dependents, and an Enrollment is removed only through the
\* deletion of its Student.
C15_EnrollmentDeleteBlocked ==
    [][/\ \A e \in enrollments :
             (/\ response'.op = "enrollment.delete"
              /\ response'.arg = e.enroll_id
              /\ SectionHasOtherDependents(e)) => tables' = tables
       /\ \A e \in enrollments \ enrollments' :
             /\ response'.op = "student.delete"
             /\ response'.arg = e.student]_vars

\* C15 as amended: deleting an Enrollment directly always succeeds and
\* removes exactly that Enrollment, whatever else references its Section;
\* an Enrollment is removed only by its own deletion or by the deletion of
\* its Student, never by a deletion of its Section, which it blocks.
C15_EnrollmentDeleteUnrestricted ==
    [][/\ \A e \in enrollments :
             (response'.op = "enrollment.delete" /\ response'.arg = e.enroll_id) =>
                 /\ response'.status = "deleted"
                 /\ enrollments' = enrollments \ {e}
                 /\ students' = students
                 /\ sections' = sections
       /\ \A e \in enrollments \ enrollments' :
             \/ response'.op = "enrollment.delete" /\ response'.arg = e.enroll_id
             \/ response'.op = "student.delete" /\ response'.arg = e.student
       /\ \A e \in enrollments :
             (response'.op = "section.delete" /\ response'.arg = e.section) =>
                 /\ response'.status = "ProtectedError"
                 /\ tables' = tables]_vars

\* An Enrollment deleted while every Section still has dependents.
C15_Witness ==
    /\ response.op = "enrollment.delete"
    /\ response.status = "deleted"
    /\ sections # {}
    /\ \A s \in sections : SectionReferenced(s.section_id)
    /\ enrollments # {}

----------------------------------------------------------------------------
\* Properties of repeated reads (checked under RepeatSpec)

AggregationOps ==
    {"api_students_per_section", "api_enrollments_per_section",
     "StudentListView", "SectionListView"}

\* The aggregation results a response carries.
AggregationResults(resp) ==
    IF resp.op \in {"StudentListView", "SectionListView"}
    THEN <<resp.body.students_per_section, resp.body.enrollments_per_section,
           resp.body.students_per_term>>
    ELSE <<resp.body>>

\* C16: the same aggregation query evaluated twice with no write in between
\* returns the same rows with the same counts in the same order.
C16_AggregationRepeatable ==
    [][(/\ response.op \in AggregationOps
        /\ response'.op = response.op
        /\ tables' = tables) =>
            AggregationResults(response') = AggregationResults(response)]_vars

\* The list page rendered with two sections of different terms, both with
\* students, and an enrollment.
C16_Witness ==
    /\ response.op = "StudentListView"
    /\ Len(response.body.students_per_term) = 2
    /\ Len(response.body.students_per_section) = 2
    /\ response.body.total_students = 2
    /\ response.body.total_enrollments >= 1

----------------------------------------------------------------------------
\* Referential integrity (checked under DeletionSpec)

\* C18: every Student's section is an existing Section, and every
\* Enrollment's student and section are an existing Student and an existing
\* Section, in every state the creations and deletions reach.
C18_NoDanglingReference ==
    /\ \A t \in students : \E s \in sections : s.section_id = t.section
    /\ \A e \in enrollments :
          /\ \E t \in students : t.student_id = e.student
          /\ \E s \in sections : s.section_id = e.section

\* A Section deleted while Students and Enrollments are stored.
C18_Witness ==
    /\ response.op = "section.delete"
    /\ response.status = "deleted"
    /\ students # {}
    /\ enrollments # {}

----------------------------------------------------------------------------
\* Consistency of the list page (checked under AggregationSpec)

RECURSIVE SumOf(_, _)
SumOf(rows, field) ==
    IF rows = << >> THEN 0 ELSE Head(rows)[field] + SumOf(Tail(rows), field)

\* C19: in the context StudentListView builds from one state of the tables,
\* n_students summed over students_per_section and over students_per_term
\* both equal total_students, and n_enrolls summed over
\* enrollments_per_section equals total_enrollments.
C19_ContextSelfConsistent ==
    response.op = "StudentListView" =>
        /\ SumOf(response.body.students_per_section, "n_students") =
               response.body.total_students
        /\ SumOf(response.body.students_per_term, "n_students") =
               response.body.total_students
        /\ SumOf(response.body.enrollments_per_section, "n_enrolls") =
               response.body.total_enrollments

\* The page for two Students in one Section holding one Enrollment, the
\* other Section empty.
C19_Witness ==
    /\ response.op = "StudentListView"
    /\ response.body.total_students = 2
    /\ response.body.total_enrollments = 1
    /\ Len(response.body.students_per_section) = 2
    /\ \E i \in 1 .. 2 : response.body.students_per_section[i].n_students = 0
    /\ \E e \in enrollments : \A t \in students : t.section = e.section

----------------------------------------------------------------------------
\* Properties of concurrent POSTs (checked under RaceSpec)

\* C17: when two add_student POSTs in flight carry the same email, at most
\* one Student row with that email is ever stored, and a request that
\* creates no row ends with the form rendered again with an error, never
\* with an exception nobody handles.
C17_SameEmailRace ==
    \A c, d \in PostClients :
        (/\ c # d
         /\ posts[c].pc # "start"
         /\ posts[d].pc # "start"
         /\ posts[c].cleaned.email = posts[d].cleaned.email) =>
            /\ Cardinality({t \in students : t.email = posts[c].cleaned.email}) <= 1
            /\ (posts[c].pc = "done" /\ posts[c].status # "302") =>
                   /\ posts[c].status = "200"
                   /\ posts[c].errors # {}

----------------------------------------------------------------------------
\* Properties of the server process (checked under ServerSpec)

\* The requests sent so far that have had no response.
Unanswered == (1 .. server.next_id - 1) \ server.answered

\* C13: no handler needs another inbound request to this server to be
\* served before it can complete: also when the server handles one request
\* at a time, as long as a request is unanswered the server has a step it
\* can take towards answering it.
C13_NoHandlerWaitsOnItsOwnServer ==
    server.capacity = 1 => (Unanswered = {} \/ ENABLED ServerStep)

----------------------------------------------------------------------------
\* Properties of the JSON export's envelope (checked under ExportSpec)

\* C21: in every response of export_students_json the minute in the
\* download filename is the minute of the envelope's generated_at, whatever
\* the clock does between the handler's steps, and record_count is the
\* number of entries in students.
C21_FilenameMinuteIsGeneratedAt ==
    json_export.ready =>
        /\ json_export.filename = Minute(json_export.generated_at)
        /\ json_export.record_count = Len(json_export.students)

====
